---- MODULE Spec2Model ----
(***************************************************************************)
(* Earthfile manager of renovate: extraction of image dependencies from an *)
(* Earthfile (lib/modules/manager/earthfile).                              *)
(*                                                                         *)
(* A string is a sequence of one-character strings.  An absent (JavaScript *)
(* undefined) value is Undef, a sequence no string of characters equals.   *)
(* Line numbers are 0-based as in the source; TLA+ sequences are 1-based,  *)
(* so physical line k of the file is lines[k + 1].                         *)
(***************************************************************************)
EXTENDS Integers, Sequences, FiniteSets, TLC

\* ------------------------------------------------------------- bounds ----

\* Largest number of physical lines of a modelled file.
MaxLines == 3

\* Largest number of tokens an image string handed to getDep is built from.
MaxParts == 3

\* ------------------------------------------------- strings (JavaScript) ---

Undef == <<"undefined">>

Min(S) == CHOOSE x \in S : \A y \in S : x <= y

Max(S) == CHOOSE x \in S : \A y \in S : x >= y

\* Body with its parameter bound to the value v: a local constant that is
\* computed once.
Bind(v, Body(_)) == Body(v)

\* JavaScript truthiness of a string-or-undefined value.
Truthy(v) == v # Undef /\ v # <<>>

\* is.string(v)
IsString(v) == v # Undef

Lower == <<"a","b","c","d","e","f","g","h","i","j","k","l","m",
           "n","o","p","q","r","s","t","u","v","w","x","y","z">>

Upper == <<"A","B","C","D","E","F","G","H","I","J","K","L","M",
           "N","O","P","Q","R","S","T","U","V","W","X","Y","Z">>

Digits == {"0","1","2","3","4","5","6","7","8","9"}

\* Case folding of the regular expressions' i flag.
Fold(c) ==
    IF \E k \in 1..26 : Lower[k] = c
    THEN Upper[CHOOSE k \in 1..26 : Lower[k] = c]
    ELSE c

\* \w
IsWord(c) ==
    \/ c \in Digits
    \/ c = "_"
    \/ \E k \in 1..26 : Lower[k] = c \/ Upper[k] = c

\* \s (the white space that occurs in a text file)
IsSpace(c) == c \in {" ", "\t", "\n", "\r", "\f"}

\* [ \t]
IsBlank(c) == c \in {" ", "\t"}

\* A line terminator, which . does not match and after which ^ matches (m).
IsTerm(c) == c \in {"\n", "\r"}

\* [^\s\+]
IsImageChar(c) == ~IsSpace(c) /\ c # "+"

\* lit occurs in s at position i.
At(s, i, lit) ==
    /\ i >= 1
    /\ i + Len(lit) - 1 <= Len(s)
    /\ \A k \in 1..Len(lit) : s[i + k - 1] = lit[k]

\* lit occurs in s at position i, letter case ignored.
AtI(s, i, lit) ==
    /\ i >= 1
    /\ i + Len(lit) - 1 <= Len(s)
    /\ \A k \in 1..Len(lit) : Fold(s[i + k - 1]) = Fold(lit[k])

\* String.prototype.indexOf, 1-based, from position from; 0 when absent.
IndexOfFrom(s, sub, from) ==
    LET hits == {i \in from..(Len(s) - Len(sub) + 1) : At(s, i, sub)}
    IN  IF hits = {} THEN 0 ELSE Min(hits)

IndexOf(s, sub) == IndexOfFrom(s, sub, 1)

\* String.prototype.includes
Includes(s, sub) == IndexOf(s, sub) # 0

\* String.prototype.startsWith
StartsWith(s, lit) == At(s, 1, lit)

\* String.prototype.replace with a string pattern: the first occurrence only.
\* (No modelled replacement text holds a $-pattern such as $& or $1.)
ReplaceFirst(s, pat, rep) ==
    LET i == IndexOf(s, pat)
    IN  IF i = 0 THEN s
        ELSE SubSeq(s, 1, i - 1) \o rep \o SubSeq(s, i + Len(pat), Len(s))

\* String.prototype.split with a one-character separator.
RECURSIVE SplitOn(_, _)
SplitOn(s, c) ==
    LET i == IndexOf(s, <<c>>)
    IN  IF i = 0 THEN <<s>>
        ELSE <<SubSeq(s, 1, i - 1)>> \o SplitOn(SubSeq(s, i + 1, Len(s)), c)

\* Array.prototype.join
RECURSIVE JoinWith(_, _)
JoinWith(parts, sep) ==
    IF Len(parts) = 0 THEN <<>>
    ELSE IF Len(parts) = 1 THEN parts[1]
    ELSE parts[1] \o sep \o JoinWith(Tail(parts), sep)

\* Membership of a character in a named character class.
InClass(cls, c) ==
    CASE cls = "space" -> IsSpace(c)
      [] cls = "blank" -> IsBlank(c)
      [] cls = "word" -> IsWord(c)
      [] cls = "image" -> IsImageChar(c)
      [] cls = "nonspace" -> ~IsSpace(c)
      [] cls = "digit" -> c \in Digits
      [] cls = "dot" -> ~IsTerm(c)
      [] cls = "brace" -> c = "}"

\* End of the longest run of characters of class cls starting at i: the
\* position after the run (i itself when the run is empty).
RECURSIVE RunEnd(_, _, _)
RunEnd(s, i, cls) ==
    IF i <= Len(s) /\ InClass(cls, s[i]) THEN RunEnd(s, i + 1, cls) ELSE i

\* String.prototype.trimStart
TrimStart(s) == SubSeq(s, RunEnd(s, 1, "space"), Len(s))

\* The positions of s at which ^ matches under the m flag.
LineStarts(s) == {p \in 1..(Len(s) + 1) : p = 1 \/ IsTerm(s[p - 1])}

\* ------------------------------------------------ regular expressions ----

\* Literal texts of the patterns.
KwFROM == <<"F","R","O","M">>

KwARG == <<"A","R","G">>

KwLET == <<"L","E","T">>

KwSET == <<"S","E","T">>

KwWithDocker == <<"W","I","T","H"," ","D","O","C","K","E","R">>

KwPull == <<"-","-","p","u","l","l">>

KwGlobal == <<"-","-","g","l","o","b","a","l">>

KwPlatform == <<"-","-","p","l","a","t","f","o","r","m","=">>

KwAllowPrivileged ==
    <<"-","-","a","l","l","o","w","-","p","r","i","v","i","l","e","g","e","d">>

\* content.split(newlineRegex), newlineRegex = /\r?\n/
RECURSIVE SplitLines(_)
SplitLines(s) ==
    LET i == IndexOf(s, <<"\n">>)
    IN  IF i = 0 THEN <<s>>
        ELSE LET e == IF i > 1 /\ s[i - 1] = "\r" THEN i - 2 ELSE i - 1
             IN  <<SubSeq(s, 1, e)>> \o SplitLines(SubSeq(s, i + 1, Len(s)))

\* lineContinuationRegex.test(s):  \\[ \t]*$ | ^[ \t]*#   (flag m)
IsContinuation(s) ==
    \/ \E i \in 1..Len(s) :
          /\ s[i] = "\\"
          /\ LET e == RunEnd(s, i + 1, "blank")
             IN  e > Len(s) \/ IsTerm(s[e])
    \/ \E p \in LineStarts(s) :
          LET e == RunEnd(s, p, "blank")
          IN  e <= Len(s) /\ s[e] = "#"

\* The colons at which targetRegex, ^(?<target>\S+?):(?:$|\n|\t|\s)+ , can
\* end its target group when matching from line start p.
TargetColons(s, p) ==
    {j \in (p + 1)..Len(s) :
        /\ s[j] = ":"
        /\ \A k \in p..(j - 1) : ~IsSpace(s[k])
        /\ (j = Len(s) \/ IsSpace(s[j + 1]))}

\* targetRegex.test(s)   (flags i, m)
IsTarget(s) == \E p \in LineStarts(s) : TargetColons(s, p) # {}

\* s.match(targetRegex)?.groups?.target : the leftmost match, its target
\* group lazy; Undef when there is no match.
TargetMatch(s) ==
    IF ~IsTarget(s) THEN Undef
    ELSE LET p == Min({q \in LineStarts(s) : TargetColons(s, q) # {}})
         IN  SubSeq(s, p, Min(TargetColons(s, p)) - 1)

\* End of  \r?\n  matched at e, 0 when it does not match.
NewlineEnd(s, e) ==
    IF At(s, e, <<"\r", "\n">>) THEN e + 2
    ELSE IF At(s, e, <<"\n">>) THEN e + 1
    ELSE 0

\* End of  \\[ \t]*\r?\n  matched at q, 0 when it does not match.
ContinuationSepEnd(s, q) ==
    IF ~(q <= Len(s) /\ s[q] = "\\") THEN 0
    ELSE NewlineEnd(s, RunEnd(s, q + 1, "blank"))

\* End of  #.*?\r?\n  matched at q, 0 when it does not match.
CommentSepEnd(s, q) ==
    IF ~(q <= Len(s) /\ s[q] = "#") THEN 0
    ELSE NewlineEnd(s, RunEnd(s, q + 1, "dot"))

\* The ends of one repetition of the separator group matched at q, for the
\* group of fromRegex (kind "from") and of argRegex (kind "arg").  The
\* alternatives differ in their first character, so one at most matches;
\* only --platform=\S+ can end at several places.
SepEnds(s, q, kind) ==
    IF ~(q <= Len(s)) THEN {}
    ELSE IF s[q] = "\\" THEN {ContinuationSepEnd(s, q)} \ {0}
    ELSE IF IsBlank(s[q]) THEN {q + 1}
    ELSE IF s[q] = "#" THEN {CommentSepEnd(s, q)} \ {0}
    ELSE IF kind = "arg" /\ AtI(s, q, KwGlobal) THEN {q + Len(KwGlobal)}
    ELSE IF kind = "from" /\ AtI(s, q, KwPlatform)
         THEN (q + Len(KwPlatform) + 1)
                  ..(RunEnd(s, q + Len(KwPlatform), "nonspace"))
    ELSE IF kind = "from" /\ AtI(s, q, KwAllowPrivileged)
         THEN {q + Len(KwAllowPrivileged)}
    ELSE {}

\* Whether the group that follows the separators matches at q:
\* (?<image>[^\s\+]+) of fromRegex, (?<name>\w+)[ =] of argRegex.
TokenAt(s, q, kind) ==
    IF kind = "from" THEN q <= Len(s) /\ IsImageChar(s[q])
    ELSE Bind(RunEnd(s, q, "word"),
              LAMBDA e : e > q /\ e <= Len(s) /\ s[e] \in {" ", "="})

\* Backtracking match of (separator)+ followed by the token, from q with n
\* separators already matched: the position where the token starts, 0 when
\* there is no match.  Longer separators are tried first (greedy).
RECURSIVE AfterSeps(_, _, _, _)
AfterSeps(s, q, n, kind) ==
    Bind({e \in SepEnds(s, q, kind) : AfterSeps(s, e, n + 1, kind) # 0},
         LAMBDA good :
             IF good # {} THEN AfterSeps(s, Max(good), n + 1, kind)
             ELSE IF n >= 1 /\ TokenAt(s, q, kind) THEN q
             ELSE 0)

\* Where the image group of fromRegex starts when the pattern is matched at
\* line start p, 0 when it does not match there.
FromAt(s, p) ==
    Bind(RunEnd(s, p, "blank"),
         LAMBDA b :
             IF AtI(s, b, KwFROM) THEN AfterSeps(s, b + Len(KwFROM), 0, "from")
             ELSE 0)

\* instruction.match(fromRegex)?.groups?.image with the position where the
\* image starts: [image, pos], image = Undef when there is no match.
FromMatch(s) ==
    Bind({p \in LineStarts(s) : FromAt(s, p) # 0},
         LAMBDA ps :
             IF ps = {} THEN [image |-> Undef, pos |-> 0]
             ELSE Bind(FromAt(s, Min(ps)),
                       LAMBDA st :
                           [image |-> SubSeq(s, st, RunEnd(s, st, "image") - 1),
                            pos |-> st]))

\* Where the name group of argRegex starts when the pattern is matched at
\* line start p, 0 when it does not match there.
ArgAt(s, p) ==
    Bind(RunEnd(s, p, "blank"),
         LAMBDA b :
             IF AtI(s, b, KwARG) \/ AtI(s, b, KwLET) \/ AtI(s, b, KwSET)
             THEN AfterSeps(s, b + 3, 0, "arg")
             ELSE 0)

\* argRegex.exec(instruction)?.groups : [name, value], name = Undef when
\* there is no match.
ArgMatch(s) ==
    Bind({p \in LineStarts(s) : ArgAt(s, p) # 0},
         LAMBDA ps :
             IF ps = {} THEN [name |-> Undef, value |-> Undef]
             ELSE Bind(ArgAt(s, Min(ps)),
                       LAMBDA st :
                           Bind(RunEnd(s, st, "word"),
                                LAMBDA e :
                                    [name |-> SubSeq(s, st, e - 1),
                                     value |->
                                         SubSeq(s, e + 1,
                                                RunEnd(s, e + 1, "image") - 1)])))

\* withDockerRegex.test(s):  ^[ \t]*WITH DOCKER   (flags i, m)
IsWithDocker(s) ==
    \E p \in LineStarts(s) : AtI(s, RunEnd(s, p, "blank"), KwWithDocker)

\* Where the image group of  --pull(?:\s+|\s*=\s*)(?<image>[^\s\+]+)  starts
\* when the pattern is matched at i, 0 when it does not match there.
PullAt(s, i) ==
    IF ~AtI(s, i, KwPull) THEN 0
    ELSE Bind(RunEnd(s, i + Len(KwPull), "space"),
              LAMBDA w :
                  IF w > i + Len(KwPull) /\ w <= Len(s) /\ IsImageChar(s[w])
                  THEN w
                  ELSE IF w <= Len(s) /\ s[w] = "="
                       THEN Bind(RunEnd(s, w + 1, "space"),
                                 LAMBDA v :
                                     IF v <= Len(s) /\ IsImageChar(s[v])
                                     THEN v ELSE 0)
                  ELSE 0)

\* Every match of imageRegex (flag g) from position from on, in order.
RECURSIVE PullImages(_, _)
PullImages(s, from) ==
    Bind({i \in from..Len(s) : PullAt(s, i) # 0},
         LAMBDA hits :
             IF hits = {} THEN <<>>
             ELSE Bind(PullAt(s, Min(hits)),
                       LAMBDA st :
                           Bind(RunEnd(s, st, "image"),
                                LAMBDA en :
                                    <<[image |-> SubSeq(s, st, en - 1),
                                       pos |-> st]>>
                                        \o PullImages(s, en))))

\* variableRegex matched at p:
\*   \\?\$(?<simplearg>\w+) | \\?\${(?<complexarg>\w+)(?::.+?)?}+
\* [end, name], end = 0 when it does not match there.
NoVar == [end |-> 0, name |-> Undef]

\* The alternative  \${(?<complexarg>\w+)(?::.+?)?}+  with its $ at d and the
\* run of \w after the brace ending at w.
ComplexVarAt(s, d, w) ==
    IF ~(At(s, d + 1, <<"{">>) /\ w > d + 2 /\ w <= Len(s)) THEN NoVar
    ELSE IF s[w] = ":"
         THEN Bind({k \in (w + 2)..Len(s) :
                       s[k] = "}" /\ \A m \in (w + 1)..(k - 1) : ~IsTerm(s[m])},
                   LAMBDA closers :
                       IF closers = {} THEN NoVar
                       ELSE [end |-> RunEnd(s, Min(closers), "brace"),
                             name |-> SubSeq(s, d + 2, w - 1)])
    ELSE IF s[w] = "}"
         THEN [end |-> RunEnd(s, w, "brace"), name |-> SubSeq(s, d + 2, w - 1)]
    ELSE NoVar

\* The pattern with its optional backslash skipped and its $ expected at d;
\* w is the end of the run of \w after the $.
DollarVarAt(s, d, w) ==
    IF ~(d <= Len(s) /\ s[d] = "$") THEN NoVar
    ELSE IF w > d + 1 THEN [end |-> w, name |-> SubSeq(s, d + 1, w - 1)]
    ELSE ComplexVarAt(s, d, RunEnd(s, d + 2, "word"))

VarAt(s, p) ==
    IF p <= Len(s) /\ s[p] = "\\"
    THEN DollarVarAt(s, p + 1, RunEnd(s, p + 2, "word"))
    ELSE DollarVarAt(s, p, RunEnd(s, p + 1, "word"))

\* extractVariables(image): the matches of variableRegex from position from
\* on as <<fullvariable, name>> pairs, one per distinct fullvariable, in the
\* order Object.entries lists them (first insertion).
RECURSIVE VariablesFrom(_, _, _)
VariablesFrom(s, from, acc) ==
    Bind({p \in from..Len(s) : VarAt(s, p).end # 0},
         LAMBDA hits :
             IF hits = {} THEN acc
             ELSE Bind(VarAt(s, Min(hits)),
                       LAMBDA m :
                           Bind(SubSeq(s, Min(hits), m.end - 1),
                                LAMBDA full :
                                    VariablesFrom(s, m.end,
                                        IF \E k \in 1..Len(acc) : acc[k][1] = full
                                        THEN acc
                                        ELSE Append(acc, <<full, m.name>>)))))

extractVariables(image) == VariablesFrom(image, 1, <<>>)

\* ------------------------------------------------------- descriptors ----

variableMarker == "$"

SkipContainsVariable == <<"contains-variable">>

SkipInvalidValue == <<"invalid-value">>

DockerDatasourceId == <<"docker">>

\* Placeholders of the Handlebars templates, one template element each.
TplDepName == "{{depName}}"

TplPackageName == "{{packageName}}"

TplColonValue == "{{#if newValue}}:{{newValue}}{{/if}}"

TplAtDigest == "{{#if newDigest}}@{{newDigest}}{{/if}}"

TplValue == "{{#if newValue}}{{newValue}}{{/if}}"

TplDigest == "{{#if newDigest}}{{newDigest}}{{/if}}"

DepNameTemplate == <<TplDepName, TplColonValue, TplAtDigest>>

PackageNameTemplate == <<TplPackageName, TplColonValue, TplAtDigest>>

\* A PackageDependency with every property absent.
EmptyDep ==
    [skipReason |-> Undef, depName |-> Undef, packageName |-> Undef,
     currentValue |-> Undef, currentDigest |-> Undef, datasource |-> Undef,
     depType |-> Undef, replaceString |-> Undef,
     autoReplaceStringTemplate |-> Undef]

\* getAutoReplaceTemplate(dep).  A placeholder is one element of the
\* template, so the digest is searched in the text outside the placeholder
\* just inserted.
getAutoReplaceTemplate(dep) ==
    Bind(IF Truthy(dep.currentValue) /\ dep.replaceString # Undef
         THEN ReplaceFirst(dep.replaceString, dep.currentValue,
                  IF ~Truthy(dep.currentDigest) THEN <<TplValue, TplAtDigest>>
                  ELSE <<TplValue>>)
         ELSE dep.replaceString,
         LAMBDA template :
             IF Truthy(dep.currentDigest) /\ template # Undef
             THEN ReplaceFirst(template, dep.currentDigest, <<TplDigest>>)
             ELSE template)

\* The value group of defaultValueRegex, ^\${.+?:-"?(?<value>.*?)"?}$ ,
\* Undef when the pattern does not match.
DefaultValue(s) ==
    Bind(IndexOfFrom(s, <<":", "-">>, 4),
         LAMBDA i :
             IF ~(At(s, 1, <<"$", "{">>) /\ i # 0 /\ i + 2 <= Len(s)
                  /\ s[Len(s)] = "}"
                  /\ \A k \in 1..Len(s) : ~IsTerm(s[k]))
             THEN Undef
             ELSE Bind(SubSeq(s, i + 2, Len(s) - 1),
                       LAMBDA inner :
                           Bind(IF Len(inner) >= 1 /\ inner[1] = "\""
                                THEN Tail(inner) ELSE inner,
                                LAMBDA a :
                                    IF Len(a) >= 1 /\ a[Len(a)] = "\""
                                    THEN SubSeq(a, 1, Len(a) - 1) ELSE a)))

\* The descriptor splitImageParts builds from currentDepTag, already split
\* at its colons, and currentDigest.
DepOfParts(isVariable, cleanedCurrentFrom, currentDepTag, depTagSplit, currentDigest) ==
    Bind(Len(depTagSplit) = 1
             \/ Includes(depTagSplit[Len(depTagSplit)], <<"/">>),
         LAMBDA noTag :
             Bind([EmptyDep EXCEPT
                      !.depName =
                          IF noTag THEN currentDepTag
                          ELSE JoinWith(SubSeq(depTagSplit, 1,
                                               Len(depTagSplit) - 1), <<":">>),
                      !.currentValue =
                          IF noTag THEN Undef
                          ELSE depTagSplit[Len(depTagSplit)],
                      !.currentDigest = currentDigest],
                  LAMBDA d :
                      IF isVariable
                      THEN [d EXCEPT
                               !.currentValue = IF Truthy(@) THEN @ ELSE Undef,
                               !.currentDigest = IF Truthy(@) THEN @ ELSE Undef,
                               !.replaceString = cleanedCurrentFrom]
                      ELSE d))

\* splitImageParts from the point where cleanedCurrentFrom and isVariable
\* have their final values.
SplitCleaned(isVariable, cleanedCurrentFrom) ==
    IF Includes(cleanedCurrentFrom, <<variableMarker>>)
    THEN [EmptyDep EXCEPT !.skipReason = SkipContainsVariable]
    ELSE Bind(SplitOn(cleanedCurrentFrom, "@"),
              LAMBDA atParts :
                  DepOfParts(isVariable, cleanedCurrentFrom, atParts[1],
                             SplitOn(atParts[1], ":"),
                             IF Len(atParts) >= 2 THEN atParts[2] ELSE Undef))

\* splitImageParts(currentFrom)
splitImageParts(currentFrom) ==
    IF ~Includes(currentFrom, <<variableMarker>>)
    THEN SplitCleaned(FALSE, currentFrom)
    ELSE Bind(DefaultValue(currentFrom),
              LAMBDA value :
                  IF Truthy(value) THEN SplitCleaned(TRUE, value)
                  ELSE SplitCleaned(FALSE, currentFrom))

\* Length of the match of quayRegex, ^quay\.io(?::[1-9][0-9]{0,4})? (flag
\* i), on s; 0 when it does not match.
QuayHost == <<"q","u","a","y",".","i","o">>

QuayMatchLen(s) ==
    IF ~AtI(s, 1, QuayHost) THEN 0
    ELSE IF Len(s) >= 9 /\ s[8] = ":" /\ s[9] \in (Digits \ {"0"})
         THEN Min({13, RunEnd(s, 10, "digit") - 1})
    ELSE 7

\* One turn of the loop over specialPrefixes.
ApplySpecialPrefix(dep, prefix, specifyReplaceString) ==
    IF StartsWith(dep.depName, prefix \o <<"/">>)
    THEN [dep EXCEPT
             !.packageName = dep.depName,
             !.depName = ReplaceFirst(dep.depName, prefix \o <<"/">>, <<>>),
             !.autoReplaceStringTemplate =
                 IF specifyReplaceString THEN PackageNameTemplate ELSE @]
    ELSE dep

specialPrefixes ==
    << <<"a","m","d","6","4">>, <<"a","r","m","6","4">>,
       <<"l","i","b","r","a","r","y">> >>

\* is.emptyStringOrWhitespace
IsEmptyStringOrWhitespace(s) == \A k \in 1..Len(s) : IsSpace(s[k])

\* getDep(currentFrom, specifyReplaceString) without registryAliases: the
\* function from its first statement on, the loop over the aliases having
\* nothing to iterate.
\* The statements of getDep between splitImageParts and the loop over
\* specialPrefixes.
SpecifyReplaceString(dep, currentFrom, specifyReplaceString) ==
    IF specifyReplaceString
    THEN [dep EXCEPT
             !.replaceString = IF Truthy(@) THEN @ ELSE currentFrom,
             !.autoReplaceStringTemplate = DepNameTemplate,
             !.datasource = DockerDatasourceId]
    ELSE [dep EXCEPT !.datasource = DockerDatasourceId]

\* The loop over specialPrefixes.
ApplySpecialPrefixes(dep, specifyReplaceString) ==
    IF Truthy(dep.depName)
    THEN ApplySpecialPrefix(
             ApplySpecialPrefix(
                 ApplySpecialPrefix(dep, specialPrefixes[1],
                                    specifyReplaceString),
                 specialPrefixes[2], specifyReplaceString),
             specialPrefixes[3], specifyReplaceString)
    ELSE dep

\* The rewrite of a quay.io host that carries a port.
ApplyQuay(dep) ==
    IF ~Truthy(dep.depName) THEN dep
    ELSE Bind(QuayMatchLen(dep.depName),
              LAMBDA q :
                  Bind(QuayHost \o SubSeq(dep.depName, q + 1, Len(dep.depName)),
                       LAMBDA depName :
                           IF q # 0 /\ depName # dep.depName
                           THEN [dep EXCEPT
                                    !.packageName = dep.depName,
                                    !.depName = depName,
                                    !.autoReplaceStringTemplate =
                                        PackageNameTemplate]
                           ELSE dep))

getDepUnaliased(currentFrom, specifyReplaceString) ==
    IF ~IsString(currentFrom) \/ IsEmptyStringOrWhitespace(currentFrom)
    THEN [EmptyDep EXCEPT !.skipReason = SkipInvalidValue]
    ELSE ApplyQuay(
             ApplySpecialPrefixes(
                 SpecifyReplaceString(splitImageParts(currentFrom),
                                      currentFrom, specifyReplaceString),
                 specifyReplaceString))

\* The first match of (?<prefix>name)/(?<depName>.+) in s: the position
\* where the depName group starts, 0 when there is no match.
AliasMatch(s, name) ==
    LET hits == {i \in 1..Len(s) :
                    /\ At(s, i, name \o <<"/">>)
                    /\ i + Len(name) + 1 <= Len(s)
                    /\ ~IsTerm(s[i + Len(name) + 1])}
    IN  IF hits = {} THEN 0 ELSE Min(hits) + Len(name) + 1

\* The run of . characters from position i on (the depName group).
DotRun(s, i) == SubSeq(s, i, RunEnd(s, i, "dot") - 1)

\* getDep(currentFrom, specifyReplaceString, registryAliases);
\* registryAliases is the sequence of the map's <<name, value>> entries.
getDep(currentFrom, specifyReplaceString, registryAliases) ==
    IF ~IsString(currentFrom) \/ IsEmptyStringOrWhitespace(currentFrom)
    THEN [EmptyDep EXCEPT !.skipReason = SkipInvalidValue]
    ELSE
    Bind({k \in 1..Len(registryAliases) :
             AliasMatch(currentFrom, registryAliases[k][1]) # 0},
         LAMBDA matching :
             IF matching = {}
             THEN getDepUnaliased(currentFrom, specifyReplaceString)
             ELSE Bind([getDepUnaliased(
                            registryAliases[Min(matching)][2] \o <<"/">>
                                \o DotRun(currentFrom,
                                       AliasMatch(currentFrom,
                                           registryAliases[Min(matching)][1])),
                            TRUE)
                           EXCEPT !.replaceString = currentFrom],
                       LAMBDA dep :
                           [dep EXCEPT
                               !.autoReplaceStringTemplate =
                                   getAutoReplaceTemplate(dep)]))

\* Stable insertion of range r into ranges sorted by start line.
RECURSIVE InsertByStart(_, _)
InsertByStart(sorted, r) ==
    IF sorted = <<>> THEN <<r>>
    ELSE IF sorted[Len(sorted)][1] <= r[1] THEN Append(sorted, r)
    ELSE Append(InsertByStart(SubSeq(sorted, 1, Len(sorted) - 1), r),
                sorted[Len(sorted)])

\* lineNumberRangesToReplace.sort((a, b) => a[0] - b[0])
RECURSIVE SortByStart(_)
SortByStart(ranges) ==
    IF ranges = <<>> THEN <<>>
    ELSE InsertByStart(SortByStart(SubSeq(ranges, 1, Len(ranges) - 1)),
                       ranges[Len(ranges)])

\* The test of the inner loop of processDepForAutoReplace on line lineNumber;
\* evaluated only where lines[lineNumber] is a string.
LineHolds(dep, lines, lineNumber) ==
    \/ IsString(dep.currentValue)
          /\ Includes(lines[lineNumber + 1], dep.currentValue)
    \/ IsString(dep.currentDigest)
          /\ Includes(lines[lineNumber + 1], dep.currentDigest)

\* Whether processDepForAutoReplace throws a TypeError: it reads
\* lines[lineNumber].includes for a lineNumber that is no index of lines.
ProcessThrows(dep, lineNumberRanges, lines) ==
    \E r \in 1..Len(lineNumberRanges) : \E e \in 1..2 :
        /\ lineNumberRanges[r][e] >= Len(lines)
        /\ (IsString(dep.currentValue) \/ IsString(dep.currentDigest))

\* lineNumberRangesToReplace before the sort: a range is pushed once for
\* each of its two elements that passes the test.
RECURSIVE RangesToReplace(_, _, _)
RangesToReplace(dep, lineNumberRanges, lines) ==
    IF lineNumberRanges = <<>> THEN <<>>
    ELSE Bind(Head(lineNumberRanges),
              LAMBDA lineNumberRange :
                  (IF LineHolds(dep, lines, lineNumberRange[1])
                   THEN <<lineNumberRange>> ELSE <<>>)
                  \o (IF LineHolds(dep, lines, lineNumberRange[2])
                      THEN <<lineNumberRange>> ELSE <<>>)
                  \o RangesToReplace(dep, Tail(lineNumberRanges), lines))

\* processDepForAutoReplace(dep, lineNumberRanges, lines, linefeed) where it
\* does not throw: the dep as the function leaves it.
processDepForAutoReplace(dep, lineNumberRanges, lines, linefeed) ==
    Bind(SortByStart(RangesToReplace(dep, lineNumberRanges, lines)),
         LAMBDA toReplace :
             IF Len(lineNumberRanges) = 1 \/ toReplace = <<>> THEN dep
             ELSE Bind([dep EXCEPT !.replaceString =
                           JoinWith(
                               [k \in 1..(toReplace[Len(toReplace)][2]
                                              - toReplace[1][1] + 1) |->
                                   IF toReplace[1][1] + k <= Len(lines)
                                   THEN lines[toReplace[1][1] + k] ELSE <<>>],
                               linefeed)
                               \o (IF Truthy(dep.currentDigest) THEN <<>>
                                   ELSE linefeed)],
                       LAMBDA d :
                           [d EXCEPT
                               !.autoReplaceStringTemplate =
                                   getAutoReplaceTemplate(d)]))

\* ------------------------------------------------- extractPackageFile ----

VARIABLES
    content,          \* the text of the package file
    registryAliases,  \* config.registryAliases, as <<name, value>> entries
    lines,            \* content.split(newlineRegex)
    lineFeed,         \* "\r\n" when content holds one, else "\n"
    lineNumber,       \* the line cursor of the scan loop (0-based)
    currentTarget,    \* name of the target in force
    args,             \* variable name -> default value
    argsLines,        \* variable name -> [first, last] line of its declaration
    deps,             \* the descriptors emitted so far
    pc,               \* "scan", "done", "threw"; "call", "returned" for getDep
    result,           \* what extractPackageFile returned: "null" or "deps"
    logical,          \* history: the [first, last] range of each logical line
    trace,            \* history: how each element of deps was obtained
    decls,            \* history: every declaration matched, in order
    currentFrom,      \* argument of a direct call of getDep
    dep               \* what the direct call of getDep returned

vars ==
    <<content, registryAliases, lines, lineFeed, lineNumber, currentTarget,
      args, argsLines, deps, pc, result, logical, trace, decls, currentFrom,
      dep>>

\* The physical lines the modelled files are made of.
LinePool ==
    {<<"F","R","O","M"," ","a",":","$","V"," ","\\">>,
     <<"F","R","O","M"," ","a",":","$","V">>,
     <<"A","R","G"," ","V","=","1">>,
     <<"L","E","T"," ","V","=","2">>,
     <<"t",":">>,
     <<>>,
     <<"F","R","O","M"," ","$","V",":","$","V">>,
     <<"A","R","G"," ","V","=","1"," ","\\">>,
     <<"#"," ","c">>,
     <<"W","I","T","H"," ","D","O","C","K","E","R"," ","-","-","p","u","l","l"," ","r","/","a"," ","-","-","p","u","l","l","=","b",":","1">>}

\* The alias maps of the modelled configurations.
AliasMaps == {<<>>, << <<<<"r">>, <<"m">>>> >>, << <<<<"i","o">>, <<"m">>>> >>}

\* Line terminator after physical line k (1-based) of a file in each style.
Terminator(style, k) ==
    IF style = "crlf" \/ (style = "mixed" /\ k = 1) THEN <<"\r", "\n">>
    ELSE <<"\n">>

RECURSIVE ContentFrom(_, _, _)
ContentFrom(ls, style, k) ==
    IF k = Len(ls) THEN ls[k]
    ELSE ls[k] \o Terminator(style, k) \o ContentFrom(ls, style, k + 1)

\* The modelled file contents: 1..MaxLines lines of the pool joined by the
\* line terminators of one of the styles; a file that ends with a terminator
\* has the empty line last.
Contents(styles) ==
    {ContentFrom(ls, style, 1) :
        ls \in UNION {[1..n -> LinePool] : n \in 1..MaxLines},
        style \in styles}

\* The loop that folds continuation lines into one instruction, from the
\* state (lineNumber, instruction, lineLookahead).
RECURSIVE FoldFrom(_, _, _, _)
FoldFrom(ls, ln, instruction, lineLookahead) ==
    IF /\ ~StartsWith(TrimStart(instruction), <<"#">>)
       /\ ~IsTarget(lineLookahead)
       /\ IsContinuation(lineLookahead)
    THEN LET next == IF ln + 1 < Len(ls) THEN ls[ln + 2] ELSE <<>>
         IN  FoldFrom(ls, ln + 1, instruction \o <<"\n">> \o next, next)
    ELSE [lineNumber |-> ln, instruction |-> instruction]

\* A table that keeps the first value stored under a name.
SetArgKeepFirst(tbl, name, value) ==
    [n \in (DOMAIN tbl) \cup {name} |->
        IF n \in DOMAIN tbl THEN tbl[n] ELSE value]

\* tbl[name] = value, for the tables args and argsLines.
SetArg(tbl, name, value) ==
    [n \in (DOMAIN tbl) \cup {name} |-> IF n = name THEN value ELSE tbl[n]]

\* Removal of the double quotes around a declared value.
Unquote(v) ==
    IF Len(v) >= 1 /\ v[1] = "\"" /\ v[Len(v)] = "\""
    THEN SubSeq(v, 2, Len(v) - 1)
    ELSE v

\* A cursor that advances from the first line of the instruction.
AdvanceCursorFromStart(lineNumberInstrStart, ln) == lineNumberInstrStart + 1

\* lineNumber += 1 at the end of a turn of the scan loop; lineNumber is then
\* the last line folded into the instruction.
AdvanceCursor(lineNumberInstrStart, ln) == ln + 1

\* The loop over the variables of an image: the image with the declared
\* variables replaced, the line ranges gathered, and what was substituted.
RECURSIVE Resolve(_, _, _, _)
Resolve(variables, acc, a, aLines) ==
    IF variables = <<>> THEN acc
    ELSE LET fullVariable == Head(variables)[1]
             argName == Head(variables)[2]
         IN  IF argName \in DOMAIN a
             THEN Resolve(Tail(variables),
                      [image |-> ReplaceFirst(acc.image, fullVariable, a[argName]),
                       ranges |-> Append(acc.ranges, aLines[argName]),
                       subst |-> Append(acc.subst,
                                    [full |-> fullVariable, name |-> argName,
                                     value |-> a[argName],
                                     range |-> aLines[argName]])],
                      a, aLines)
             ELSE Resolve(Tail(variables), acc, a, aLines)

\* Number of line terminators of s before position pos.
LinesBefore(s, pos) == Cardinality({k \in 1..(pos - 1) : s[k] = "\n"})

Scratch == <<"s","c","r","a","t","c","h">>

\* The image of an instruction with its variables resolved: the image, the
\* line ranges gathered and what was substituted.
Resolved(image, start, end, a, aLines) ==
    IF Includes(image, <<variableMarker>>)
    THEN Resolve(extractVariables(image),
                 [image |-> image, ranges |-> << <<start, end>> >>,
                  subst |-> <<>>],
                 a, aLines)
    ELSE [image |-> image, ranges |-> << <<start, end>> >>, subst |-> <<>>]

\* One turn of the loop over the images of an instruction, from its state
\* acc = [deps, trace, threw]: the resolved image r of image is turned into
\* a descriptor and pushed, unless it is scratch or an exception is thrown.
ProcessImage(image, r, acc, start, end, target) ==
    IF r.image = Scratch THEN acc
    ELSE Bind(getDep(r.image, TRUE, registryAliases),
              LAMBDA d :
                  IF ProcessThrows(d, r.ranges, lines)
                  THEN [acc EXCEPT !.threw = TRUE]
                  ELSE [deps |->
                            Append(acc.deps,
                                [processDepForAutoReplace(d, r.ranges, lines,
                                                          lineFeed)
                                    EXCEPT !.depType =
                                        IF Truthy(@) THEN @ ELSE target]),
                        trace |->
                            Append(acc.trace,
                                [candidate |-> image.image, image |-> r.image,
                                 ranges |-> r.ranges, subst |-> r.subst,
                                 start |-> start, end |-> end,
                                 refLine |-> start + image.line]),
                        threw |-> FALSE])

\* The loop over the images of one instruction; an exception ends it.
RECURSIVE ProcessImages(_, _, _, _, _, _, _)
ProcessImages(images, acc, start, end, target, a, aLines) ==
    IF images = <<>> \/ acc.threw THEN acc
    ELSE ProcessImages(Tail(images),
             ProcessImage(Head(images),
                          Resolved(Head(images).image, start, end, a, aLines),
                          acc, start, end, target),
             start, end, target, a, aLines)

\* The images of an instruction, in the order they are pushed: every --pull
\* image of a WITH DOCKER instruction, then the FROM image; each with the
\* offset, in lines, of the image from the instruction's first line.
ImagesOf(instruction) ==
    Bind((IF IsWithDocker(instruction)
          THEN PullImages(instruction, 1) ELSE <<>>)
             \o Bind(FromMatch(instruction),
                     LAMBDA fromMatch :
                         IF fromMatch.image # Undef THEN <<fromMatch>>
                         ELSE <<>>),
         LAMBDA images :
             [k \in 1..Len(images) |->
                 [image |-> images[k].image,
                  line |-> LinesBefore(instruction, images[k].pos)]])

\* The state extractPackageFile(content, _, config) starts its scan loop in.
InitWith(contents, aliasMaps) ==
    /\ content \in contents
    /\ registryAliases \in aliasMaps
    /\ lines = SplitLines(content)
    /\ lineFeed = IF Includes(content, <<"\r", "\n">>)
                  THEN <<"\r", "\n">> ELSE <<"\n">>
    /\ lineNumber = 0
    /\ currentTarget = <<"b","a","s","e">>
    /\ args = <<>>
    /\ argsLines = <<>>
    /\ deps = <<>>
    /\ pc = "scan"
    /\ result = "none"
    /\ logical = <<>>
    /\ trace = <<>>
    /\ decls = <<>>
    /\ currentFrom = Undef
    /\ dep = EmptyDep

\* Every modelled file under every modelled configuration.
FileInit == InitWith(Contents({"lf", "crlf", "mixed"}), AliasMaps)

\* The files with \n terminators, no registry alias configured.
ScanInit == InitWith(Contents({"lf"}), {<<>>})

\* One turn of the scan loop: the logical line that starts at lineNumber is
\* folded and processed.
ScanInstruction ==
    /\ pc = "scan"
    /\ lineNumber < Len(lines)
    /\ \E fold \in {FoldFrom(lines, lineNumber, lines[lineNumber + 1],
                             lines[lineNumber + 1])} :
       \E targetMatch \in {TargetMatch(fold.instruction)},
          argMatch \in {ArgMatch(fold.instruction)},
          images \in {ImagesOf(fold.instruction)},
          range \in {<<lineNumber, fold.lineNumber>>} :
          /\ currentTarget' =
                 IF Truthy(targetMatch) THEN targetMatch ELSE currentTarget
          /\ IF Truthy(argMatch.name)
             THEN /\ argsLines' = SetArg(argsLines, argMatch.name, range)
                  /\ args' = SetArg(args, argMatch.name,
                                    Unquote(argMatch.value))
                  /\ decls' = Append(decls,
                                  [name |-> argMatch.name,
                                   value |-> Unquote(argMatch.value),
                                   range |-> range])
             ELSE UNCHANGED <<argsLines, args, decls>>
          /\ logical' = Append(logical, range)
          /\ \E out \in {ProcessImages(images,
                            [deps |-> deps, trace |-> trace, threw |-> FALSE],
                            range[1], range[2], currentTarget', args',
                            argsLines')} :
                /\ deps' = out.deps
                /\ trace' = out.trace
                /\ pc' = IF out.threw THEN "threw" ELSE "scan"
                /\ lineNumber' =
                       IF out.threw THEN fold.lineNumber
                       ELSE AdvanceCursor(range[1], fold.lineNumber)
    /\ UNCHANGED <<content, registryAliases, lines, lineFeed, result,
                   currentFrom, dep>>

\* The scan loop ends and extractPackageFile returns.
Return ==
    /\ pc = "scan"
    /\ lineNumber >= Len(lines)
    /\ pc' = "done"
    /\ result' = IF deps = <<>> THEN "null" ELSE "deps"
    /\ UNCHANGED <<content, registryAliases, lines, lineFeed, lineNumber,
                   currentTarget, args, argsLines, deps, logical, trace,
                   decls, currentFrom, dep>>

Next == ScanInstruction \/ Return

Spec == FileInit /\ [][Next]_vars

ScanSpec == ScanInit /\ [][Next]_vars

\* ------------------------------------------------------ getDep alone ----

\* The tokens the modelled image strings are built from.
ImageTokens ==
    {<<"a">>,
     <<"/">>,
     <<":">>,
     <<"@">>,
     <<"1">>,
     <<"a","m","d","6","4","/">>,
     <<"l","i","b","r","a","r","y","/">>,
     <<"q","u","a","y",".","i","o">>,
     <<":","4","4","3">>,
     <<"i","o">>,
     <<"$">>,
     <<"$","{","V",":","-">>,
     <<"}">>}

RECURSIVE Concat(_)
Concat(parts) == IF parts = <<>> THEN <<>> ELSE Head(parts) \o Concat(Tail(parts))

\* The modelled image strings: 1..MaxParts tokens.
Images ==
    {Concat(parts) :
        parts \in UNION {[1..n -> ImageTokens] : n \in 1..MaxParts}}

DepInit ==
    /\ currentFrom \in Images
    /\ registryAliases \in AliasMaps
    /\ pc = "call"
    /\ dep = EmptyDep
    /\ content = <<>>
    /\ lines = <<>>
    /\ lineFeed = <<"\n">>
    /\ lineNumber = 0
    /\ currentTarget = <<"b","a","s","e">>
    /\ args = <<>>
    /\ argsLines = <<>>
    /\ deps = <<>>
    /\ result = "none"
    /\ logical = <<>>
    /\ trace = <<>>
    /\ decls = <<>>

\* getDep(currentFrom, true, registryAliases)
GetDepCall ==
    /\ pc = "call"
    /\ dep' = getDep(currentFrom, TRUE, registryAliases)
    /\ pc' = "returned"
    /\ UNCHANGED <<content, registryAliases, lines, lineFeed, lineNumber,
                   currentTarget, args, argsLines, deps, result, logical,
                   trace, decls, currentFrom>>

DepNext == GetDepCall

DepSpec == DepInit /\ [][DepNext]_vars

\* ------------------------------------------------------------ claims ----

\* Handlebars rendering of a template with depName and packageName of the
\* descriptor, newValue = currentValue and newDigest = currentDigest; an
\* absent or empty value renders its placeholder to the empty text.
RenderElement(e, d) ==
    CASE e = TplDepName -> IF IsString(d.depName) THEN d.depName ELSE <<>>
      [] e = TplPackageName ->
             IF IsString(d.packageName) THEN d.packageName ELSE <<>>
      [] e = TplColonValue ->
             IF Truthy(d.currentValue) THEN <<":">> \o d.currentValue ELSE <<>>
      [] e = TplAtDigest ->
             IF Truthy(d.currentDigest) THEN <<"@">> \o d.currentDigest ELSE <<>>
      [] e = TplValue -> IF Truthy(d.currentValue) THEN d.currentValue ELSE <<>>
      [] e = TplDigest ->
             IF Truthy(d.currentDigest) THEN d.currentDigest ELSE <<>>
      [] OTHER -> <<e>>

RECURSIVE Render(_, _)
Render(template, d) ==
    IF template = <<>> THEN <<>>
    ELSE RenderElement(Head(template), d) \o Render(Tail(template), d)

\* C1: extractPackageFile completes without throwing on every file content
\* and alias map.
C1_NeverThrows == pc # "threw"

\* C2: the replaceString of every emitted descriptor is a contiguous
\* substring of the original file content.
C2_ReplaceStringVerbatim ==
    \A i \in 1..Len(deps) : Includes(content, deps[i].replaceString)

\* A reference of the form name, name:tag, name@digest or name:tag@digest:
\* no variable, one @ at most, no empty name, tag, digest or segment
\* between colons.
WellFormedReference(s) ==
    LET atParts == SplitOn(s, "@")
        colonParts == SplitOn(atParts[1], ":")
    IN  /\ ~Includes(s, <<variableMarker>>)
        /\ Len(atParts) <= 2
        /\ \A k \in 1..Len(atParts) : atParts[k] # <<>>
        /\ \A k \in 1..Len(colonParts) : colonParts[k] # <<>>

\* C3: rendering autoReplaceStringTemplate of a non-skipped descriptor of
\* getDep with its own depName, packageName, currentValue and currentDigest
\* yields its replaceString; stated for the well-formed references the claim
\* lists (plain, special prefixes, quay.io hosts, alias-rewritten).
C3_RoundTrip ==
    (/\ pc = "returned"
     /\ dep.skipReason = Undef
     /\ WellFormedReference(currentFrom))
        => Render(dep.autoReplaceStringTemplate, dep) = dep.replaceString

\* C4: a descriptor returned by getDep has either skipReason set and depName
\* absent, or skipReason absent and a non-empty depName.
C4_SkipReasonOrDepName ==
    pc = "returned" =>
        \/ dep.skipReason # Undef /\ dep.depName = Undef
        \/ dep.skipReason = Undef /\ Truthy(dep.depName)

\* The target in force before physical line k: the name of the nearest
\* target header on a line before k, "base" when there is none.
TargetBefore(k) ==
    LET headers == {j \in 0..(k - 1) : j < Len(lines) /\ IsTarget(lines[j + 1])}
    IN  IF headers = {} THEN <<"b","a","s","e">>
        ELSE TargetMatch(lines[Max(headers) + 1])

\* C5: the depType of every emitted descriptor is the name of the nearest
\* target header on a physical line before the line of its image
\* reference, "base" when no header precedes it.
C5_DepTypeIsPrecedingTarget ==
    \A i \in 1..Len(deps) : deps[i].depType = TargetBefore(trace[i].refLine)

\* C6: an image string that does not start with an alias prefix followed by
\* "/" is not rewritten: getDep yields the depName it yields with an empty
\* alias map.
C6_AliasOnlyAtStart ==
    (/\ pc = "returned"
     /\ \A k \in 1..Len(registryAliases) :
            ~StartsWith(currentFrom, registryAliases[k][1] \o <<"/">>))
        => dep.depName = getDep(currentFrom, TRUE, <<>>).depName

\* C7: after resolution an image holds no occurrence of a variable token
\* whose name is declared: every occurrence was replaced.
C7_EveryOccurrenceReplaced ==
    \A i \in 1..Len(trace) : \A k \in 1..Len(trace[i].subst) :
        ~Includes(trace[i].image, trace[i].subst[k].full)

\* The declarations of name among the first n matched, as indices of decls.
DeclsOf(name, n) == {k \in 1..n : decls[k].name = name}

DeclsUpTo(name, start) ==
    {k \in DeclsOf(name, Len(decls)) : decls[k].range[1] <= start}

RangesWithValue(d, ranges) ==
    {r \in 1..Len(ranges) :
        \E k \in ranges[r][1]..ranges[r][2] :
            k < Len(lines) /\ LineHolds(d, lines, k)}

\* The lines first..last of the file joined by the file's line terminator.
JoinedLines(first, last) ==
    JoinWith([k \in 1..(last - first + 1) |->
                 IF first + k <= Len(lines) THEN lines[first + k] ELSE <<>>],
             lineFeed)

\* C9: with two or more contributing ranges of which one at least has a
\* line holding currentValue or currentDigest, replaceString is the join of
\* the lines from the least start to the greatest end of those ranges, plus
\* one line terminator when the descriptor has no digest; with one
\* contributing range replaceString is what getDep set.
C9_SpanOfRangesWithValue ==
    \A i \in 1..Len(deps) :
        LET ranges == trace[i].ranges
            kept == RangesWithValue(deps[i], ranges)
            first == Min({ranges[r][1] : r \in kept})
            last == Max({ranges[r][2] : r \in kept})
        IN  /\ (Len(ranges) >= 2 /\ kept # {}) =>
                   deps[i].replaceString =
                       JoinedLines(first, last)
                           \o (IF Truthy(deps[i].currentDigest)
                               THEN <<>> ELSE lineFeed)
            /\ Len(ranges) = 1 =>
                   deps[i].replaceString =
                       getDep(trace[i].image, TRUE, registryAliases).replaceString

\* The ranges of the logical lines formed so far are in increasing order
\* and pairwise disjoint, and every physical line the cursor has passed
\* (every line of the file once the loop has ended) lies in exactly one;
\* the cursor never exceeds the number of lines by more than one, and no
\* more logical lines are formed than the file has lines.
C10_Partition ==
    LET passed == IF pc = "scan" /\ lineNumber < Len(lines)
                  THEN lineNumber ELSE Len(lines)
    IN  /\ lineNumber <= Len(lines) + 1
        /\ Len(logical) <= Len(lines)
        /\ \A i \in 1..Len(logical) : logical[i][1] <= logical[i][2]
        /\ \A i \in 1..Len(logical) : \A j \in 1..Len(logical) :
               i < j => logical[i][2] < logical[j][1]
        /\ \A k \in 0..(passed - 1) :
               Cardinality({i \in 1..Len(logical) :
                               logical[i][1] <= k /\ k <= logical[i][2]}) = 1

\* The line cursor strictly increases from one logical line to the next.
C10_CursorIncreases == pc' = "scan" => lineNumber' > lineNumber

\* C10: the cursor of the scan loop strictly increases from one logical
\* line to the next and is bounded by the number of lines, so the loop
\* terminates after at most that many turns; the ranges of the logical
\* lines are disjoint, increasing and contain every physical line exactly
\* once.
C10_ScanPartitionsFile ==
    /\ []C10_Partition
    /\ [][C10_CursorIncreases]_vars

\* C10 witness: the loop has ended on a file of several logical lines, one
\* of them folded from several physical lines.
C10_Witness ==
    /\ pc = "done"
    /\ Len(logical) >= 2
    /\ \E i \in 1..Len(logical) : logical[i][2] > logical[i][1]

====
